---- MODULE Spec2Model ----
(***************************************************************************)
(* parsesm: recover original sources from the source maps of a deployed    *)
(* web application (src/src/main.rs).                                      *)
(*                                                                         *)
(* Strings are sequences of one-character strings, so that trimming,       *)
(* replacing and path splitting are computed character by character as     *)
(* the Rust standard library computes them.                                *)
(***************************************************************************)
EXTENDS Integers, Sequences, FiniteSets, TLC

VARIABLES pc, host, origin, body, relative_scripts, requests, inflight,
          bodies, cursor, notice, fs, dirs, calls

vars == <<pc, host, origin, body, relative_scripts, requests, inflight,
          bodies, cursor, notice, fs, dirs, calls>>

(***************************************************************************)
(* Bounds of the model.                                                    *)
(***************************************************************************)
MaxElems == 2
MaxScripts == 2
MaxWrites == 2
MaxIoErrors == 1

(***************************************************************************)
(* String literals of the program.                                         *)
(***************************************************************************)
HTTP == <<"h", "t", "t", "p", ":", "/", "/">>
HTTPS == <<"h", "t", "t", "p", "s", ":", "/", "/">>
WEBPACK == <<"w", "e", "b", "p", "a", "c", "k", ":", "/", "/", "/">>
DOTSLASH == <<".", "/">>
SLASH == <<"/">>
DOTJS == <<".", "j", "s">>
DOTJSMAP == <<".", "j", "s", ".", "m", "a", "p">>
OUTROOT == <<".", "/", "o", "u", "t", "/">>

(***************************************************************************)
(* str primitives.                                                         *)
(***************************************************************************)
Drop(s, n) == SubSeq(s, n + 1, Len(s))

starts_with(s, p) == Len(p) <= Len(s) /\ SubSeq(s, 1, Len(p)) = p

\* a trim that removes the prefix once
strip_prefix_once(s, p) == IF starts_with(s, p) THEN Drop(s, Len(p)) ELSE s

RECURSIVE trim_start_matches(_, _)
trim_start_matches(s, p) ==
    IF p # <<>> /\ starts_with(s, p)
    THEN trim_start_matches(Drop(s, Len(p)), p)
    ELSE s

RECURSIVE replace(_, _, _)
replace(s, from, to) ==
    IF s = <<>> THEN <<>>
    ELSE IF starts_with(s, from)
         THEN to \o replace(Drop(s, Len(from)), from, to)
         ELSE <<Head(s)>> \o replace(Tail(s), from, to)

(***************************************************************************)
(* Option values.                                                          *)
(***************************************************************************)
None == [some |-> FALSE, v |-> <<>>]
Some(x) == [some |-> TRUE, v |-> x]

(***************************************************************************)
(* find_scripts: the parsed document is the sequence of its script         *)
(* elements in document order, each with an optional src attribute.        *)
(***************************************************************************)
\* a discoverer that keeps one URL per distinct src
RECURSIVE find_scripts_dedup(_, _)
find_scripts_dedup(h, doc) ==
    IF doc = <<>> THEN <<>>
    ELSE LET e == doc[Len(doc)]
             front == SubSeq(doc, 1, Len(doc) - 1)
             rest == find_scripts_dedup(h, front)
         IN IF e.some /\ starts_with(e.v, SLASH)
               /\ \A i \in 1..Len(front) : front[i] # e
            THEN Append(rest, h \o replace(e.v, DOTJS, DOTJSMAP))
            ELSE rest

RECURSIVE find_scripts(_, _)
find_scripts(h, doc) ==
    IF doc = <<>> THEN <<>>
    ELSE LET e == Head(doc)
             rest == find_scripts(h, Tail(doc))
         IN IF e.some /\ starts_with(e.v, SLASH)
            THEN <<h \o replace(e.v, DOTJS, DOTJSMAP)>> \o rest
            ELSE rest

(***************************************************************************)
(* std::path::Path on Unix: components, file_name and parent.              *)
(***************************************************************************)
\* the maximal runs of non-separator characters, as index ranges
RECURSIVE Segments(_, _, _)
Segments(p, i, start) ==
    IF i > Len(p)
    THEN IF start < i THEN <<[s |-> start, e |-> i - 1]>> ELSE <<>>
    ELSE IF p[i] = "/"
         THEN (IF start < i THEN <<[s |-> start, e |-> i - 1]>> ELSE <<>>)
              \o Segments(p, i + 1, i + 1)
         ELSE Segments(p, i + 1, start)

SegText(p, g) == SubSeq(p, g.s, g.e)

has_root(p) == starts_with(p, SLASH)

\* a "." is a component only when it leads a relative path
components(p) ==
    LET keep(g) == SegText(p, g) # <<".">> \/ g.s = 1
    IN SelectSeq(Segments(p, 1, 1), keep)

file_name(p) ==
    LET cs == components(p)
    IN IF cs = <<>> THEN None
       ELSE LET last == SegText(p, cs[Len(cs)])
            IN IF last = <<".">> \/ last = <<".", ".">> THEN None
               ELSE Some(last)

parent(p) ==
    LET cs == components(p)
    IN IF cs = <<>> THEN None
       ELSE IF Len(cs) = 1
            THEN Some(IF has_root(p) THEN SLASH ELSE <<>>)
            ELSE Some(SubSeq(p, 1, cs[Len(cs) - 1].e))

(***************************************************************************)
(* The file system: a path names the file the kernel resolves it to,       *)
(* relative to the working directory, "." skipped and ".." stepping up.    *)
(***************************************************************************)
RECURSIVE ResolveFrom(_, _)
ResolveFrom(stack, names) ==
    IF names = <<>> THEN stack
    ELSE LET n == Head(names)
         IN IF n = <<".">> THEN ResolveFrom(stack, Tail(names))
            ELSE IF n = <<".", ".">>
                 THEN IF stack # <<>> /\ stack[Len(stack)] # <<".", ".">>
                      THEN ResolveFrom(SubSeq(stack, 1, Len(stack) - 1), Tail(names))
                      ELSE ResolveFrom(Append(stack, n), Tail(names))
                 ELSE ResolveFrom(Append(stack, n), Tail(names))

Names(p) == LET gs == Segments(p, 1, 1)
            IN [i \in 1..Len(gs) |-> SegText(p, gs[i])]

Resolve(p) == ResolveFrom(<<>>, Names(p))

\* create_dir_all makes the directory and every ancestor it walks through
DirsOf(p) ==
    LET ns == Names(p)
    IN {ResolveFrom(<<>>, SubSeq(ns, 1, k)) : k \in 1..Len(ns)} \ {<<>>}

(***************************************************************************)
(* write_contents.  io is the answer of the operating system to open and   *)
(* to write_all; create_dir_all fails when a file is in the way of a       *)
(* directory, and open when a directory is in the way of the file,         *)
(* whatever io says.  The result carries the new file system and the       *)
(* record of the invocation.                                               *)
(***************************************************************************)
\* an open that truncates instead of appending
TruncateTo(fsys, f, contents) ==
    [g \in DOMAIN fsys \cup {f} |-> IF g = f THEN contents ELSE fsys[g]]

AppendTo(fsys, f, contents) ==
    [g \in DOMAIN fsys \cup {f} |->
        IF g = f
        THEN (IF f \in DOMAIN fsys THEN fsys[f] ELSE <<>>) \o contents
        ELSE fsys[g]]

write_contents(fsys, ds, h, path, contents, io) ==
    LET h1 == trim_start_matches(h, HTTP)
        host_key == trim_start_matches(h1, HTTPS)
        t1 == trim_start_matches(path, WEBPACK)
        trimmed == trim_start_matches(t1, DOTSLASH)
        module == parent(trimmed)
        out_dir == IF module.some
                   THEN OUTROOT \o host_key \o SLASH \o module.v
                   ELSE OUTROOT \o host_key
        name == file_name(trimmed)
        target == out_dir \o SLASH \o name.v
        file == Resolve(target)
        made == ds \cup DirsOf(out_dir)
        call == [host |-> h, path |-> path, contents |-> contents,
                 host_key |-> host_key, trimmed |-> trimmed,
                 out_dir |-> out_dir, target |-> None, result |-> "panic"]
    IN IF ~name.some
       THEN [fs |-> fsys, dirs |-> ds, call |-> call]
       ELSE IF DirsOf(out_dir) \cap DOMAIN fsys # {}
       THEN [fs |-> fsys, dirs |-> ds, call |-> [call EXCEPT !.result = "err"]]
       ELSE IF io = "open_err" \/ file \in made
       THEN [fs |-> fsys, dirs |-> made,
             call |-> [call EXCEPT !.result = "err", !.target = Some(target)]]
       ELSE IF io = "write_err"
       THEN [fs |-> AppendTo(fsys, file, <<>>), dirs |-> made,
             call |-> [call EXCEPT !.result = "err", !.target = Some(target)]]
       ELSE [fs |-> AppendTo(fsys, file, contents), dirs |-> made,
             call |-> [call EXCEPT !.result = "ok", !.target = Some(target)]]

(***************************************************************************)
(* load_from_reader.  A map body is what sourcemap::decode makes of it:    *)
(* malformed, a regular map, an index map (flattened section by section)   *)
(* or another variant.  A map is the zip of its sources and contents.      *)
(***************************************************************************)
RECURSIVE Concat(_)
Concat(ss) == IF ss = <<>> THEN <<>> ELSE Head(ss) \o Concat(Tail(ss))

Err == [ok |-> FALSE, sm |-> <<>>]
Ok(sm) == [ok |-> TRUE, sm |-> sm]

load_from_reader(raw) ==
    IF raw.variant = "regular" THEN Ok(raw.sm)
    ELSE IF raw.variant = "index"
         THEN IF raw.flattens THEN Ok(Concat(raw.sections)) ELSE Err
         ELSE Err

(***************************************************************************)
(* Inputs.                                                                 *)
(***************************************************************************)
SeqsUpTo(S, n) == UNION {[1..k -> S] : k \in 0..n}

\* http://h, http://http://h, https://http://h
Hosts ==
    { <<"h", "t", "t", "p", ":", "/", "/", "h">>,
      <<"h", "t", "t", "p", ":", "/", "/", "h", "t", "t", "p", ":", "/", "/", "h">>,
      <<"h", "t", "t", "p", "s", ":", "/", "/", "h", "t", "t", "p", ":", "/", "/", "h">> }

\* the origin of the pipeline runs: http://h
Origins == { <<"h", "t", "t", "p", ":", "/", "/", "h">> }

\* script elements: inline, /a.js, /b.js, //c/l.js, https://c/l.js, a.js,
\* /x.js?x.js, /s.css
ScriptElems ==
    { None,
      Some(<<"/", "a", ".", "j", "s">>),
      Some(<<"/", "b", ".", "j", "s">>),
      Some(<<"/", "/", "c", "/", "l", ".", "j", "s">>),
      Some(<<"h", "t", "t", "p", "s", ":", "/", "/", "c", "/", "l", ".", "j", "s">>),
      Some(<<"a", ".", "j", "s">>),
      Some(<<"/", "x", ".", "j", "s", "?", "x", ".", "j", "s">>),
      Some(<<"/", "s", ".", "c", "s", "s">>) }

Docs == SeqsUpTo(ScriptElems, MaxElems)

\* the pages an origin serves: inline, /a.js, /b.js
PageElems ==
    { None,
      Some(<<"/", "a", ".", "j", "s">>),
      Some(<<"/", "b", ".", "j", "s">>) }

Pages == SeqsUpTo(PageElems, MaxScripts)

\* logical paths handed to the writer: a.js, ./././a.js,
\* webpack:///webpack:///./s/b.js, /a.js, ../../x.js, a.js/b.js, webpack:///,
\* s/..
WritePaths ==
    { <<"a", ".", "j", "s">>,
      <<".", "/", ".", "/", ".", "/", "a", ".", "j", "s">>,
      <<"w", "e", "b", "p", "a", "c", "k", ":", "/", "/", "/",
        "w", "e", "b", "p", "a", "c", "k", ":", "/", "/", "/",
        ".", "/", "s", "/", "b", ".", "j", "s">>,
      <<"/", "a", ".", "j", "s">>,
      <<".", ".", "/", ".", ".", "/", "x", ".", "j", "s">>,
      <<"a", ".", "j", "s", "/", "b", ".", "j", "s">>,
      <<"w", "e", "b", "p", "a", "c", "k", ":", "/", "/", "/">>,
      <<"s", "/", ".", ".">> }

WriteTexts == { <<"A">>, <<"B">> }

IoErrors == {"open_err", "write_err"}

\* entries of the maps a server answers
EntryA == [source |-> <<"w", "e", "b", "p", "a", "c", "k", ":", "/", "/", "/", ".", "/", "a", ".", "j", "s">>,
           contents |-> Some(<<"A">>)]
EntryB == [source |-> <<"a", ".", "j", "s">>, contents |-> Some(<<"B">>)]
EntryAbsent == [source |-> <<"b", ".", "j", "s">>, contents |-> None]
EntryNoFile == [source |-> <<"w", "e", "b", "p", "a", "c", "k", ":", "/", "/", "/">>,
                contents |-> Some(<<"B">>)]

Maps ==
    { <<>>,
      <<EntryAbsent>>,
      <<EntryAbsent, EntryA>>,
      <<EntryA, EntryB>>,
      <<EntryNoFile, EntryA>> }

RawMaps ==
    {[variant |-> "malformed", sm |-> <<>>, sections |-> <<>>, flattens |-> FALSE],
     [variant |-> "hermes", sm |-> <<>>, sections |-> <<>>, flattens |-> FALSE],
     [variant |-> "index", sm |-> <<>>, sections |-> <<<<EntryB>>, <<EntryAbsent>>>>,
      flattens |-> TRUE],
     [variant |-> "index", sm |-> <<>>, sections |-> <<>>, flattens |-> FALSE]}
    \cup {[variant |-> "regular", sm |-> m, sections |-> <<>>, flattens |-> FALSE] :
            m \in Maps}

(***************************************************************************)
(* State.                                                                  *)
(*   pc                position of the run                                 *)
(*   host              the origin given on the command line                *)
(*   origin            what the GET of the origin came to                  *)
(*   body              the script elements of the page                     *)
(*   relative_scripts  the map URLs find_scripts returned                  *)
(*   requests          the map URLs requested so far, in order             *)
(*   inflight          requests sent and not yet answered                  *)
(*   bodies            the (url, body) pairs fetch_map_files collected     *)
(*   cursor            map and entry the write loop stands at              *)
(*   notice            the "no sourcemaps found" line was printed          *)
(*   fs, dirs          files (with their contents) and directories         *)
(*   calls             the invocations of write_contents, in order         *)
(***************************************************************************)
Idle(p, h) ==
    /\ pc = p
    /\ host = h
    /\ origin = "none"
    /\ body = <<>>
    /\ relative_scripts = <<>>
    /\ requests = <<>>
    /\ inflight = 0
    /\ bodies = <<>>
    /\ cursor = [m |-> 1, e |-> 1]
    /\ notice = FALSE
    /\ fs = <<>>
    /\ dirs = {}
    /\ calls = <<>>

IoFailures(cs) == Cardinality({i \in 1..Len(cs) : cs[i].result = "err"})

IoChoices == IF IoFailures(calls) < MaxIoErrors THEN {"ok"} \cup IoErrors ELSE {"ok"}

(***************************************************************************)
(* extract_map, one step per suspension point and per written entry.       *)
(***************************************************************************)
Init == \E h \in Origins : Idle("start", h)

SendOrigin ==
    /\ pc = "start"
    /\ pc' = "origin_wait"
    /\ inflight' = 1
    /\ UNCHANGED <<host, origin, body, relative_scripts, requests, bodies,
                   cursor, notice, fs, dirs, calls>>

\* an unreachable origin that falls through to the map stage
OriginUnreachableFallsThrough ==
    /\ pc = "origin_wait"
    /\ \E o \in {"transport_err", "not_ok"} : origin' = o
    /\ pc' = "fetch"
    /\ inflight' = 0
    /\ UNCHANGED <<host, body, relative_scripts, requests, bodies, cursor,
                   notice, fs, dirs, calls>>

\* send() failed, or the status is not 2xx: return Ok(())
OriginUnreachable ==
    /\ pc = "origin_wait"
    /\ \E o \in {"transport_err", "not_ok"} : origin' = o
    /\ pc' = "done"
    /\ inflight' = 0
    /\ UNCHANGED <<host, body, relative_scripts, requests, bodies, cursor,
                   notice, fs, dirs, calls>>

\* 2xx, but text() fails: expect("failed to get body") panics
OriginBodyFails ==
    /\ pc = "origin_wait"
    /\ origin' = "ok"
    /\ pc' = "panic"
    /\ inflight' = 0
    /\ UNCHANGED <<host, body, relative_scripts, requests, bodies, cursor,
                   notice, fs, dirs, calls>>

OriginPage ==
    /\ pc = "origin_wait"
    /\ \E doc \in Pages :
         /\ body' = doc
         /\ relative_scripts' = find_scripts(host, doc)
    /\ origin' = "ok"
    /\ pc' = "fetch"
    /\ inflight' = 0
    /\ UNCHANGED <<host, requests, bodies, cursor, notice, fs, dirs, calls>>

\* fetch_map_files: the next iteration sends its GET
SendMap ==
    /\ pc = "fetch"
    /\ inflight = 0
    /\ Len(requests) < Len(relative_scripts)
    /\ requests' = Append(requests, relative_scripts[Len(requests) + 1])
    /\ inflight' = inflight + 1
    /\ UNCHANGED <<pc, host, origin, body, relative_scripts, bodies, cursor,
                   notice, fs, dirs, calls>>

\* send() failed or the status is not 2xx: the URL is skipped
MapSkipped ==
    /\ pc = "fetch"
    /\ inflight = 1
    /\ inflight' = 0
    /\ UNCHANGED <<pc, host, origin, body, relative_scripts, requests, bodies,
                   cursor, notice, fs, dirs, calls>>

\* 2xx, but text() fails: expect("failed to get body") panics
MapBodyFails ==
    /\ pc = "fetch"
    /\ inflight = 1
    /\ inflight' = 0
    /\ pc' = "panic"
    /\ UNCHANGED <<host, origin, body, relative_scripts, requests, bodies,
                   cursor, notice, fs, dirs, calls>>

MapFetched ==
    /\ pc = "fetch"
    /\ inflight = 1
    /\ inflight' = 0
    /\ \E raw \in RawMaps :
         bodies' = Append(bodies, <<requests[Len(requests)], raw>>)
    /\ UNCHANGED <<pc, host, origin, body, relative_scripts, requests, cursor,
                   notice, fs, dirs, calls>>

\* the entries of js_maps[m] when it decodes, none when it does not
EntriesAt(js_maps, m) ==
    LET sm == load_from_reader(js_maps[m][2])
    IN IF sm.ok THEN sm.sm ELSE <<>>

\* the first entry at or after (m, e) whose contents are present
RECURSIVE Seek(_, _, _)
Seek(js_maps, m, e) ==
    IF m > Len(js_maps) THEN [m |-> m, e |-> 1]
    ELSE IF e > Len(EntriesAt(js_maps, m)) THEN Seek(js_maps, m + 1, 1)
    ELSE IF EntriesAt(js_maps, m)[e].contents.some THEN [m |-> m, e |-> e]
    ELSE Seek(js_maps, m, e + 1)

\* a notice that is printed only when no script was discovered
FetchReturnsNoticeOnNoScripts ==
    /\ pc = "fetch"
    /\ inflight = 0
    /\ Len(requests) = Len(relative_scripts)
    /\ IF Len(relative_scripts) = 0
       THEN /\ notice' = TRUE
            /\ pc' = "done"
            /\ UNCHANGED cursor
       ELSE /\ UNCHANGED notice
            /\ cursor' = Seek(bodies, 1, 1)
            /\ pc' = IF cursor'.m > Len(bodies) THEN "done" ELSE "write"
    /\ UNCHANGED <<host, origin, body, relative_scripts, requests, inflight,
                   bodies, fs, dirs, calls>>

\* fetch_map_files returned: the notice, or the start of the write loop
FetchReturns ==
    /\ pc = "fetch"
    /\ inflight = 0
    /\ Len(requests) = Len(relative_scripts)
    /\ IF Len(bodies) = 0
       THEN /\ notice' = TRUE
            /\ pc' = "done"
            /\ UNCHANGED cursor
       ELSE /\ UNCHANGED notice
            /\ cursor' = Seek(bodies, 1, 1)
            /\ pc' = IF cursor'.m > Len(bodies) THEN "done" ELSE "write"
    /\ UNCHANGED <<host, origin, body, relative_scripts, requests, inflight,
                   bodies, fs, dirs, calls>>

WriteEntry ==
    /\ pc = "write"
    /\ \E io \in IoChoices :
         LET s == EntriesAt(bodies, cursor.m)[cursor.e]
             r == write_contents(fs, dirs, host, s.source, s.contents.v, io)
         IN /\ fs' = r.fs
            /\ dirs' = r.dirs
            /\ calls' = Append(calls, r.call)
            /\ IF r.call.result = "panic"
               THEN /\ pc' = "panic"
                    /\ UNCHANGED cursor
               ELSE /\ cursor' = Seek(bodies, cursor.m, cursor.e + 1)
                    /\ pc' = IF cursor'.m > Len(bodies) THEN "done" ELSE "write"
    /\ UNCHANGED <<host, origin, body, relative_scripts, requests, inflight,
                   bodies, notice>>

Next ==
    \/ SendOrigin
    \/ OriginUnreachable
    \/ OriginBodyFails
    \/ OriginPage
    \/ SendMap
    \/ MapSkipped
    \/ MapBodyFails
    \/ MapFetched
    \/ FetchReturns
    \/ WriteEntry

Spec == Init /\ [][Next]_vars

(***************************************************************************)
(* find_scripts on its own: any origin, any page.                          *)
(***************************************************************************)
InitFind == \E h \in Hosts : \E doc \in Docs :
    /\ pc = "find"
    /\ host = h
    /\ origin = "ok"
    /\ body = doc
    /\ relative_scripts = <<>>
    /\ requests = <<>>
    /\ inflight = 0
    /\ bodies = <<>>
    /\ cursor = [m |-> 1, e |-> 1]
    /\ notice = FALSE
    /\ fs = <<>>
    /\ dirs = {}
    /\ calls = <<>>

CallFindScripts ==
    /\ pc = "find"
    /\ relative_scripts' = find_scripts(host, body)
    /\ pc' = "found"
    /\ UNCHANGED <<host, origin, body, requests, inflight, bodies, cursor,
                   notice, fs, dirs, calls>>

NextFind == CallFindScripts

SpecFind == InitFind /\ [][NextFind]_vars

(***************************************************************************)
(* write_contents on its own: any host, any sequence of invocations on an  *)
(* empty ./out/.                                                           *)
(***************************************************************************)
InitWrite == \E h \in Hosts : Idle("writer", h)

CallWriteContents ==
    /\ pc = "writer"
    /\ Len(calls) < MaxWrites
    /\ \E path \in WritePaths, contents \in WriteTexts, io \in IoChoices :
         LET r == write_contents(fs, dirs, host, path, contents, io)
         IN /\ fs' = r.fs
            /\ dirs' = r.dirs
            /\ calls' = Append(calls, r.call)
            /\ pc' = IF r.call.result = "panic" THEN "panic" ELSE "writer"
    /\ UNCHANGED <<host, origin, body, relative_scripts, requests, inflight,
                   bodies, cursor, notice>>

NextWrite == CallWriteContents

SpecWrite == InitWrite /\ [][NextWrite]_vars

\* the values the variables take
TypeOK ==
    /\ pc \in {"start", "origin_wait", "fetch", "write", "done", "panic",
               "find", "found", "writer"}
    /\ origin \in {"none", "transport_err", "not_ok", "ok"}
    /\ inflight \in 0..1
    /\ notice \in BOOLEAN
    /\ Len(requests) <= Len(relative_scripts)
    /\ Len(bodies) <= Len(requests)

(***************************************************************************)
(* Properties.                                                             *)
(***************************************************************************)
IsPrefix(s, t) == Len(s) <= Len(t) /\ SubSeq(t, 1, Len(s)) = s

RECURSIVE Rep(_, _)
Rep(p, n) == IF n = 0 THEN <<>> ELSE p \o Rep(p, n - 1)

HostRelative(e) == e.some /\ e.v # <<>> /\ e.v[1] = "/"

\* C1: find_scripts returns, in document order and with duplicates kept, one
\* URL per script element whose src begins with "/", each equal to the origin
\* followed by the src with ".js" replaced by ".js.map", and nothing else.
C1_FindScriptsExact ==
    pc = "found" =>
        LET kept == SelectSeq(body, HostRelative)
        IN /\ Len(relative_scripts) = Len(kept)
           /\ \A i \in 1..Len(kept) :
                relative_scripts[i] = host \o replace(kept[i].v, DOTJS, DOTJSMAP)

\* two script elements with the same host-relative src gave two equal URLs
C1_Witness ==
    /\ pc = "found"
    /\ Len(body) = 2
    /\ body[1] = body[2]
    /\ Len(relative_scripts) = 2
    /\ relative_scripts[1] = relative_scripts[2]
    /\ Len(relative_scripts[1]) = Len(host) + Len(body[1].v) + 4

\* C2: a script whose src is absolute or protocol-relative ("//..."), or that
\* has no src, yields no map URL.
C2_DiscardsForeignScripts ==
    pc = "found" =>
        LET local(e) == HostRelative(e) /\ ~starts_with(e.v, <<"/", "/">>)
        IN Len(relative_scripts) = Len(SelectSeq(body, local))

\* C10 as stated: at most one occurrence of each prefix is removed.
C10_TrimsOnce ==
    \A i \in 1..Len(calls) :
        LET c == calls[i]
        IN /\ c.host_key = IF starts_with(c.host, HTTP)
                           THEN Drop(c.host, Len(HTTP))
                           ELSE strip_prefix_once(c.host, HTTPS)
           /\ c.trimmed = strip_prefix_once(strip_prefix_once(c.path, WEBPACK),
                                            DOTSLASH)

\* C10 (amended): write_contents removes every leading repetition of
\* "http://" and then of "https://" from the host, and every leading
\* repetition of "webpack:///" and then of "./" from the logical path.
C10_TrimsEveryRepetition ==
    \A i \in 1..Len(calls) :
        LET c == calls[i]
        IN /\ \E a \in 0..Len(c.host), b \in 0..Len(c.host) :
                /\ c.host = Rep(HTTP, a) \o Rep(HTTPS, b) \o c.host_key
                /\ ~starts_with(c.host_key, HTTPS)
                /\ b = 0 => ~starts_with(c.host_key, HTTP)
           /\ \E a \in 0..Len(c.path), b \in 0..Len(c.path) :
                /\ c.path = Rep(WEBPACK, a) \o Rep(DOTSLASH, b) \o c.trimmed
                /\ ~starts_with(c.trimmed, DOTSLASH)
                /\ b = 0 => ~starts_with(c.trimmed, WEBPACK)

\* host http://http://h lost both schemes and ./././a.js all three "./"
C10_Witness ==
    \E i \in 1..Len(calls) :
        /\ calls[i].host = HTTP \o HTTP \o <<"h">>
        /\ calls[i].host_key = <<"h">>
        /\ calls[i].path = DOTSLASH \o DOTSLASH \o DOTSLASH \o calls[i].trimmed
        /\ calls[i].result = "ok"

\* C4: every file write_contents opens has a path that begins with
\* ./out/<host key>/ and lies inside that directory.
C4_StaysInsideOutRoot ==
    \A i \in 1..Len(calls) :
        LET c == calls[i]
            root == OUTROOT \o c.host_key
        IN c.target.some =>
             /\ starts_with(c.target.v, root \o SLASH)
             /\ IsPrefix(Resolve(root), Resolve(c.target.v))
             /\ Resolve(root) # Resolve(c.target.v)

\* the contents the successful invocations up to the n-th gave to file f
RECURSIVE WrittenTo(_, _, _)
WrittenTo(cs, n, f) ==
    IF n = 0 THEN <<>>
    ELSE WrittenTo(cs, n - 1, f)
         \o (IF cs[n].result = "ok" /\ Resolve(cs[n].target.v) = f
             THEN cs[n].contents ELSE <<>>)

\* C5: starting from an empty ./out/, the content of every file is the
\* concatenation, in invocation order, of the contents of the invocations
\* that wrote to it: no write truncates or overwrites an earlier one.
C5_FilesAreConcatenations ==
    \A f \in DOMAIN fs : fs[f] = WrittenTo(calls, Len(calls), f)

\* two different logical paths met in one file, which holds both contents
C5_Witness ==
    /\ Len(calls) = 2
    /\ calls[1].path # calls[2].path
    /\ calls[1].contents # calls[2].contents
    /\ calls[1].result = "ok"
    /\ calls[2].result = "ok"
    /\ \E f \in DOMAIN fs : fs[f] = calls[1].contents \o calls[2].contents

Present(e) == e.contents.some

\* the entries with contents of the maps that decode, maps in fetch order
RECURSIVE PresentEntries(_, _)
PresentEntries(js_maps, n) ==
    IF n = 0 THEN <<>>
    ELSE PresentEntries(js_maps, n - 1) \o SelectSeq(EntriesAt(js_maps, n), Present)

Invoked == [i \in 1..Len(calls) |->
               [source |-> calls[i].path, contents |-> Some(calls[i].contents)]]

Ended == pc \in {"done", "panic"}

\* C3: the writer is invoked exactly for the entries whose contents are
\* present, in the order of each map's sources, maps in fetch order: what it
\* was invoked for is always a prefix of those entries, and all of them once
\* a run that started writing has ended.
C3_WritesExactlyPresentEntries ==
    /\ IsPrefix(Invoked, PresentEntries(bodies, Len(bodies)))
    /\ (Ended /\ calls # <<>>) => Invoked = PresentEntries(bodies, Len(bodies))

\* C6: a failure of the writer is an error value, never the end of the run:
\* every invocation returns, and the entries after a failed one are written.
C6_WriterFailureDoesNotAbort ==
    /\ \A i \in 1..Len(calls) : calls[i].result \in {"ok", "err"}
    /\ \A i \in 1..Len(calls) :
         (calls[i].result # "ok" /\ Ended) =>
             Len(calls) = Len(PresentEntries(bodies, Len(bodies)))

\* C7: when the GET of the origin fails or answers non-2xx, the run ends
\* cleanly with no map fetch, no writer invocation, no notice and nothing
\* created under ./out/.
C7_UnreachableOriginDoesNothing ==
    origin \in {"transport_err", "not_ok"} =>
        /\ pc = "done"
        /\ inflight = 0
        /\ requests = <<>>
        /\ bodies = <<>>
        /\ calls = <<>>
        /\ notice = FALSE
        /\ fs = <<>>
        /\ dirs = {}

\* the origin answered 404 and the run is over
C7_Witness == origin = "not_ok" /\ pc = "done"

Wrote == \E i \in 1..Len(calls) : calls[i].result = "ok"

\* C8 as stated: a run whose origin answered 2xx ends with the notice or
\* with at least one file written.
C8_NoticeOrFiles ==
    (pc = "done" /\ origin = "ok") => (notice \/ Wrote)

\* C8 (amended): the notice and written files exclude each other; the notice
\* is printed exactly when the origin answered 2xx and every map fetch ended
\* without a body; a run with neither is one whose origin was unreachable,
\* one that panicked, or one that retrieved a map body and wrote no file.
C8_Outcomes ==
    Ended =>
        /\ ~(notice /\ Wrote)
        /\ notice <=> /\ pc = "done"
                      /\ origin = "ok"
                      /\ Len(requests) = Len(relative_scripts)
                      /\ bodies = <<>>
        /\ (~notice /\ ~Wrote) => \/ origin \in {"transport_err", "not_ok"}
                                  \/ pc = "panic"
                                  \/ bodies # <<>>

\* the origin answered 2xx, a map body came back, and the run ended with
\* neither the notice nor a file
C8_Witness ==
    /\ pc = "done"
    /\ origin = "ok"
    /\ bodies # <<>>
    /\ ~notice
    /\ ~Wrote
    /\ fs = <<>>

\* C9: one GET per discovered URL in document order, one in flight at a
\* time, and a failure for one URL (a body that cannot be read included)
\* never keeps the later URLs from being fetched.
C9_EveryUrlIsFetched ==
    /\ inflight <= 1
    /\ IsPrefix(requests, relative_scripts)
    /\ (origin = "ok" /\ pc \in {"write", "done", "panic"} /\ body # <<>>) =>
           requests = relative_scripts

====
